---- MODULE Spec2Model ----
(***************************************************************************)
(* stampede: run a list of commands concurrently with a bounded slot pool, *)
(* an abort-on-fail latch, and a single aggregator (src/main.go).          *)
(*                                                                         *)
(* Strings are sequences of one-character strings.  Three specifications:  *)
(*   ParseSpec  - parseTasks applied line by line to bounded input lines;  *)
(*   Spec       - main(): the scheduler, the runners, the closer goroutine *)
(*                and the aggregator, started from the state parseArgs     *)
(*                leaves behind;                                           *)
(*   FairSpec   - Spec with the fairness the Go scheduler provides and the *)
(*                assumption that spawned processes exit.                  *)
(***************************************************************************)
EXTENDS Integers, Sequences, FiniteSets, TLC

\* ---------------------------------------------------------------- bounds
MaxLines == 3       \* longest input line list given to parseTasks
MaxTasks == 2       \* largest task list the scheduler is started with
MaxMax   == 1       \* largest value of --max
MaxOut   == 1       \* most lines a process writes on one stream

\* ------------------------------------------------------------- strings
Digit == <<"0", "1", "2", "3", "4", "5", "6", "7", "8", "9">>

\* byte value of each character used in the inputs (ASCII)
Byte(c) ==
  CASE c = " " -> 32  [] c = "(" -> 40  [] c = ")" -> 41  [] c = "." -> 46
    [] c = "/" -> 47  [] c = "0" -> 48  [] c = "1" -> 49  [] c = "2" -> 50
    [] c = "3" -> 51  [] c = "4" -> 52  [] c = "5" -> 53  [] c = "6" -> 54
    [] c = "7" -> 55  [] c = "8" -> 56  [] c = "9" -> 57  [] c = "[" -> 91
    [] c = "]" -> 93  [] c = "a" -> 97  [] c = "b" -> 98  [] c = "x" -> 120

\* strings.TrimSpace
RECURSIVE TrimLeft(_)
TrimLeft(s) == IF s # <<>> /\ Head(s) = " " THEN TrimLeft(Tail(s)) ELSE s

RECURSIVE TrimRight(_)
TrimRight(s) ==
  IF s # <<>> /\ s[Len(s)] = " " THEN TrimRight(SubSeq(s, 1, Len(s) - 1)) ELSE s

TrimSpace(s) == TrimRight(TrimLeft(s))

\* strings.HasPrefix(line, "[")
HasPrefixBracket(s) == s # <<>> /\ Head(s) = "["

\* strings.Index(line, c): 0-based index of the first c, -1 when absent
Index(s, c) ==
  IF \E i \in 1..Len(s) : s[i] = c
  THEN (CHOOSE i \in 1..Len(s) : s[i] = c /\ \A j \in 1..(i - 1) : s[j] # c) - 1
  ELSE -1

\* Go slice s[lo:hi] with 0-based bounds
Slice(s, lo, hi) == SubSeq(s, lo + 1, hi)

\* strings.Fields(cmd): the whitespace-separated words of cmd
RECURSIVE Fields(_)
Fields(s) ==
  LET t == TrimLeft(s) IN
  IF t = <<>> THEN <<>>
  ELSE LET e == Index(t, " ")
           n == IF e < 0 THEN Len(t) ELSE e
       IN <<Slice(t, 0, n)>> \o Fields(Slice(t, n, Len(t)))

\* path/filepath.Base (Unix): last element of the path
RECURSIVE StripSlashes(_)
StripSlashes(p) ==
  IF p # <<>> /\ p[Len(p)] = "/" THEN StripSlashes(SubSeq(p, 1, Len(p) - 1)) ELSE p

LastSlash(p) ==
  IF \E i \in 1..Len(p) : p[i] = "/"
  THEN CHOOSE i \in 1..Len(p) : p[i] = "/" /\ \A j \in (i + 1)..Len(p) : p[j] # "/"
  ELSE 0

Base(path) ==
  IF path = <<>> THEN <<".">>
  ELSE LET p == StripSlashes(path)
           q == SubSeq(p, LastSlash(p) + 1, Len(p))
       IN IF q = <<>> THEN <<"/">> ELSE q

\* path/filepath.Ext: the suffix of the last element starting at its last dot
Ext(path) ==
  LET from == LastSlash(path) + 1
      dots == {i \in from..Len(path) : path[i] = "."}
  IN IF dots = {} THEN <<>>
     ELSE LET d == CHOOSE i \in dots : \A j \in dots : j <= i
          IN SubSeq(path, d, Len(path))

\* strings.TrimSuffix(base, ext)
TrimSuffix(s, suf) ==
  IF Len(suf) <= Len(s) /\ SubSeq(s, Len(s) - Len(suf) + 1, Len(s)) = suf
  THEN SubSeq(s, 1, Len(s) - Len(suf))
  ELSE s

\* %d of fmt.Sprintf, for n >= 0
RECURSIVE Itoa(_)
Itoa(n) == IF n < 10 THEN <<Digit[n + 1]>> ELSE Itoa(n \div 10) \o <<Digit[(n % 10) + 1]>>

\* fmt.Sprintf("%s (%d)", origLabel, n)
SuffixLabel(origLabel, n) == origLabel \o <<" ", "(">> \o Itoa(n) \o <<")">>

\* ------------------------------------------------------------- getColor
NumColors == 11

RECURSIVE Xor(_, _)
Xor(a, b) ==
  IF a = 0 THEN b
  ELSE IF b = 0 THEN a
  ELSE (((a % 2) + (b % 2)) % 2) + 2 * Xor(a \div 2, b \div 2)

\* a uint32 is kept as <<high 16 bits, low 16 bits>>
FnvOffset == <<33052, 40389>>              \* 2166136261 = 0x811C9DC5

\* h = (h XOR b) * 16777619 mod 2^32, 16777619 = 0x0100 * 2^16 + 0x0193
FnvStep(h, b) ==
  LET lo == Xor(h[2], b)
      hi == h[1]
      pl == lo * 403
  IN <<(hi * 403 + lo * 256 + (pl \div 65536)) % 65536, pl % 65536>>

RECURSIVE Fnv32a(_, _)
Fnv32a(h, s) == IF s = <<>> THEN h ELSE Fnv32a(FnvStep(h, Byte(Head(s))), Tail(s))

\* int(h.Sum32()) % len(Colors), int being 64 bits wide: the sum is not negative
getColor(label) ==
  LET h == Fnv32a(FnvOffset, label)
  IN (((h[1] % NumColors) * (65536 % NumColors)) + h[2]) % NumColors

\* ------------------------------------------------------------ parseTasks
VARIABLES
  lines,        \* parseTasks: the argument, a sequence of strings
  pIdx,         \* parseTasks: index of the next line of the range loop
  tasks,        \* parseTasks: tasks built so far; afterwards args.Tasks
  labelCount,   \* parseTasks: map from base label to times seen
  parsePc       \* "loop", "returned", or "panic" (index out of range at fields[0])

parseVars == <<lines, pIdx, tasks, labelCount, parsePc>>

VARIABLES
  Max, AbortOnFail, Quiet,   \* args, set by parseArgs from the flags
  mainPc,       \* position of main
  crash,        \* "none", or the runtime panic that killed the process
  exitStatus,   \* process exit status, -1 while running
  cancelled,    \* ctx has been cancelled by the signal goroutine
  semCap, sem,  \* capacity of sem and number of elements in it
  wg,           \* counter of the WaitGroup wg
  exitOnFail,   \* the abort latch
  results,      \* buffer of the results channel
  closed,       \* the results channel has been closed
  closerPc,     \* the goroutine of lines 322-325: "none", "wait", "done"
  spawnIdx,     \* index of the next task of the loop of line 317
  successCount, failCount, failLabels,
  pc,           \* position of each runTask goroutine
  res,          \* runTask: the TaskResult it builds
  spawned,      \* runTask: cmd.Start returned nil
  left,         \* per task and stream: lines the process still delivers
  rdDone,       \* per task: streams whose copyOutput returned (wgOut.Done)
  written,      \* per task: writeOut calls made by its runner and readers
  procLines,    \* per task: lines its process writes on both streams (history)
  sent,         \* per task: number of sends on results (history)
  pendingAtFail \* tasks that were Pending or in SlotWait when, with abort-on-fail,
                \* cmd.Wait reported a nonzero exit (history)

argVars    == <<Max, AbortOnFail, Quiet>>
mainVars   == <<mainPc, crash, exitStatus, spawnIdx>>
aggVars    == <<successCount, failCount, failLabels>>
chanVars   == <<results, closed, closerPc>>
runnerVars == <<pc, res, spawned, left, rdDone, written, procLines, sent, pendingAtFail>>
schedVars == <<argVars, mainVars, aggVars, chanVars, runnerVars,
               cancelled, semCap, sem, wg, exitOnFail>>
vars == <<parseVars, argVars, mainVars, aggVars, chanVars, runnerVars,
          cancelled, semCap, sem, wg, exitOnFail>>

\* lines 100-106: the explicit label and the command of a trimmed line
SplitLabel(line) ==
  LET end == Index(line, "]") IN
  IF HasPrefixBracket(line) /\ end > 0
  THEN [label |-> Slice(line, 1, end),
        cmd   |-> TrimSpace(Slice(line, end + 1, Len(line)))]
  ELSE [label |-> <<>>, cmd |-> line]

\* line 110 indexes fields[0]: a runtime panic when cmd has no word
InferPanics(cmd) == Fields(cmd) = <<>>

\* lines 109-112: label inferred from the first word of the command
InferLabel(cmd) ==
  LET base == Base(Fields(cmd)[1]) IN TrimSuffix(base, Ext(base))

\* map lookup labelCount[origLabel]: zero for a missing key
CountOf(lc, l) == IF l \in DOMAIN lc THEN lc[l] ELSE 0

\* the suffix numbered with the count of earlier occurrences (off by one)
DisplayLabelOffByOne(origLabel, count) ==
  IF count > 0 THEN SuffixLabel(origLabel, count) ELSE origLabel

\* lines 116-119: the display label of the occurrence that follows count earlier ones
DisplayLabel(origLabel, count) ==
  IF count > 0 THEN SuffixLabel(origLabel, count + 1) ELSE origLabel

\* line 125: the color key stored in the Task
ColorKey(label, origLabel) == getColor(label)

\* line 120: labelCount[origLabel] = count + 1
BumpCount(lc, l) ==
  [k \in DOMAIN lc \cup {l} |-> IF k = l THEN CountOf(lc, l) + 1 ELSE lc[k]]

\* lines 122-126
NewTask(origLabel, count, cmd) ==
  LET label == DisplayLabel(origLabel, count)
  IN [Label |-> label, Command |-> cmd, Color |-> ColorKey(label, origLabel)]

\* one iteration of the loop of lines 91-127 on a non-blank trimmed line
\* that does not panic
OrigLabel(line) ==
  LET sl == SplitLabel(line)
  IN IF sl.label = <<>> THEN InferLabel(sl.cmd) ELSE sl.label

LinePanics(line) ==
  LET sl == SplitLabel(line) IN sl.label = <<>> /\ InferPanics(sl.cmd)

\* line 92-95: blank line, skipped
ParseSkipBlank ==
  /\ parsePc = "loop"
  /\ pIdx <= Len(lines)
  /\ TrimSpace(lines[pIdx]) = <<>>
  /\ pIdx' = pIdx + 1
  /\ UNCHANGED <<lines, tasks, labelCount, parsePc>>
  /\ UNCHANGED schedVars

\* line 110: fields[0] on an empty slice
ParsePanic ==
  /\ parsePc = "loop"
  /\ pIdx <= Len(lines)
  /\ TrimSpace(lines[pIdx]) # <<>>
  /\ LinePanics(TrimSpace(lines[pIdx]))
  /\ parsePc' = "panic"
  /\ UNCHANGED <<lines, pIdx, tasks, labelCount>>
  /\ UNCHANGED schedVars

\* lines 97-126: one task appended
ParseAppend ==
  /\ parsePc = "loop"
  /\ pIdx <= Len(lines)
  /\ LET line == TrimSpace(lines[pIdx])
         orig == OrigLabel(line)
     IN /\ line # <<>>
        /\ ~LinePanics(line)
        /\ tasks' = Append(tasks, NewTask(orig, CountOf(labelCount, orig), SplitLabel(line).cmd))
        /\ labelCount' = BumpCount(labelCount, orig)
  /\ pIdx' = pIdx + 1
  /\ UNCHANGED <<lines, parsePc>>
  /\ UNCHANGED schedVars

\* line 129
ParseReturn ==
  /\ parsePc = "loop"
  /\ pIdx > Len(lines)
  /\ parsePc' = "returned"
  /\ UNCHANGED <<lines, pIdx, tasks, labelCount>>
  /\ UNCHANGED schedVars

\* parseTasks as a function of its argument (used for the scheduler's start state)
RECURSIVE ParseFrom(_, _, _, _)
ParseFrom(ls, i, ts, lc) ==
  IF i > Len(ls) THEN [tasks |-> ts, labelCount |-> lc, panic |-> FALSE]
  ELSE LET line == TrimSpace(ls[i]) IN
       IF line = <<>> THEN ParseFrom(ls, i + 1, ts, lc)
       ELSE IF LinePanics(line) THEN [tasks |-> ts, labelCount |-> lc, panic |-> TRUE]
       ELSE LET orig == OrigLabel(line)
            IN ParseFrom(ls, i + 1,
                         Append(ts, NewTask(orig, CountOf(lc, orig), SplitLabel(line).cmd)),
                         BumpCount(lc, orig))

parseTasks(ls) == ParseFrom(ls, 1, <<>>, <<>>)

\* the input lines the parser is exercised on
InputLines ==
  { <<"[", "a", "]", " ", "x">>,                 \* [a] x
    <<"a", " ", "x">>,                           \* a x
    <<"[", "a", " ", "(", "2", ")", "]", "x">>,  \* [a (2)]x
    <<"/", "b", "/", "a", ".", "x">>,            \* /b/a.x
    <<"[", "]">>,                                \* []
    <<"[", "]", " ", "x">>,                      \* [] x
    <<"[", "a">>,                                \* [a
    <<"[", "b", "]">>,                           \* [b]
    <<" ", "b", " ">>,                           \*  b  (untrimmed)
    <<" ">>,                                     \* blank
    <<".", "a">> }                               \* .a

LineLists == UNION {[1..n -> InputLines] : n \in 0..MaxLines}

\* ------------------------------------------------------------------ main
Tasks   == 1..Len(tasks)
Streams == {"stdout", "stderr"}

\* processes that are killed as soon as the abort latch is set
ProcExitCodesKilledByLatch(killed) ==
  IF killed \/ exitOnFail = 1 THEN {-1} ELSE {0, 3}

\* exit codes the processes are run with; ExitCode() of a process killed by
\* the cancelled ctx is -1
ProcExitCodes(killed) == IF killed THEN {0, 3, -1} ELSE {0, 3}

NoResult == [ExitCode |-> 0, Err |-> "unset"]

Alive == crash = "none" /\ mainPc # "exited"

\* lines 212-216
ParseArgsCheck ==
  /\ Alive /\ mainPc = "parseArgs"
  /\ IF Len(tasks) = 0
     THEN mainPc' = "exited" /\ exitStatus' = 1
     ELSE mainPc' = "setup" /\ exitStatus' = exitStatus
  /\ UNCHANGED <<parseVars, argVars, crash, spawnIdx, aggVars, chanVars, runnerVars,
                 cancelled, semCap, sem, wg, exitOnFail>>

\* line 308: make(chan struct{}, args.Max) panics on a negative size
MakePanics(size) == size < 0

\* lines 308-311: capacity of the slot pool
SlotCapacity(max, n) == IF max <= 0 THEN n ELSE max

\* lines 295-315
MainSetup ==
  /\ Alive /\ mainPc = "setup"
  /\ IF MakePanics(Max)
     THEN /\ crash' = "makechan: size out of range"
          /\ exitStatus' = 2
          /\ UNCHANGED <<mainPc, semCap>>
     ELSE /\ mainPc' = "spawn"
          /\ semCap' = SlotCapacity(Max, Len(tasks))
          /\ UNCHANGED <<crash, exitStatus>>
  /\ UNCHANGED <<parseVars, argVars, spawnIdx, aggVars, chanVars, runnerVars,
                 cancelled, sem, wg, exitOnFail>>

\* lines 302-306: the signal goroutine cancels ctx
Signal ==
  /\ Alive /\ mainPc \notin {"parseArgs", "setup"}
  /\ ~cancelled
  /\ cancelled' = TRUE
  /\ UNCHANGED <<parseVars, argVars, mainVars, aggVars, chanVars, runnerVars,
                 semCap, sem, wg, exitOnFail>>

\* lines 317-320: wg.Add(1); go runTask(...)
MainSpawn ==
  /\ Alive /\ mainPc = "spawn"
  /\ spawnIdx <= Len(tasks)
  /\ wg' = wg + 1
  /\ pc' = [pc EXCEPT ![spawnIdx] = "SlotWait"]
  /\ spawnIdx' = spawnIdx + 1
  /\ UNCHANGED <<parseVars, argVars, mainPc, crash, exitStatus, aggVars, chanVars,
                 res, spawned, left, rdDone, written, procLines, sent, pendingAtFail,
                 cancelled, semCap, sem, exitOnFail>>

\* lines 322-325: go func() { wg.Wait(); close(results) }()
MainGoCloser ==
  /\ Alive /\ mainPc = "spawn"
  /\ spawnIdx > Len(tasks)
  /\ closerPc' = "wait"
  /\ mainPc' = "range"
  /\ UNCHANGED <<parseVars, argVars, crash, exitStatus, spawnIdx, aggVars,
                 results, closed, runnerVars, cancelled, semCap, sem, wg, exitOnFail>>

\* a close that does not wait for the runners
WaitReturnsAtOnce(counter) == TRUE

\* line 323: wg.Wait() returns
WaitReturns(counter) == counter = 0

\* lines 323-324
CloserClose ==
  /\ Alive /\ closerPc = "wait"
  /\ WaitReturns(wg)
  /\ closed' = TRUE
  /\ closerPc' = "done"
  /\ UNCHANGED <<parseVars, argVars, mainVars, aggVars, results, runnerVars,
                 cancelled, semCap, sem, wg, exitOnFail>>

\* a test that takes every non-negative code for a success
IsSuccessNonNegative(code) == code >= 0

\* line 332
IsSuccess(code) == code = 0

\* lines 331-338: one iteration of the range over results
AggRecv ==
  /\ Alive /\ mainPc = "range"
  /\ results # <<>>
  /\ LET r == Head(results) IN
       IF IsSuccess(r.ExitCode)
       THEN /\ successCount' = successCount + 1
            /\ UNCHANGED <<failCount, failLabels>>
       ELSE /\ failCount' = failCount + 1
            /\ failLabels' = Append(failLabels, tasks[r.Task].Label)
            /\ UNCHANGED successCount
  /\ results' = Tail(results)
  /\ UNCHANGED <<parseVars, argVars, mainVars, closed, closerPc, runnerVars,
                 cancelled, semCap, sem, wg, exitOnFail>>

\* line 331: the range ends on a closed and drained channel
AggEnd ==
  /\ Alive /\ mainPc = "range"
  /\ results = <<>> /\ closed
  /\ mainPc' = "summary"
  /\ UNCHANGED <<parseVars, argVars, crash, exitStatus, spawnIdx, aggVars, chanVars,
                 runnerVars, cancelled, semCap, sem, wg, exitOnFail>>

\* an exit status that ignores the failure count
ExitStatusAlwaysZero(fails) == 0

\* lines 350-352
ExitStatusOf(fails) == IF fails > 0 THEN 1 ELSE 0

\* lines 341-353
MainExit ==
  /\ Alive /\ mainPc = "summary"
  /\ mainPc' = "exited"
  /\ exitStatus' = ExitStatusOf(failCount)
  /\ UNCHANGED <<parseVars, argVars, crash, spawnIdx, aggVars, chanVars,
                 runnerVars, cancelled, semCap, sem, wg, exitOnFail>>

\* ---------------------------------------------------------------- runTask
\* a send that also proceeds on a full buffer
CanAcquireOffByOne(n, cap) == n <= cap

\* line 222: a send on sem proceeds while the buffer has room
CanAcquire(n, cap) == n < cap

\* line 222: sem <- struct{}{}
Acquire(t) ==
  /\ Alive /\ pc[t] = "SlotWait"
  /\ CanAcquire(sem, semCap)
  /\ sem' = sem + 1
  /\ pc' = [pc EXCEPT ![t] = "AbortCheck"]
  /\ UNCHANGED <<parseVars, argVars, mainVars, aggVars, chanVars,
                 res, spawned, left, rdDone, written, procLines, sent, pendingAtFail,
                 cancelled, semCap, wg, exitOnFail>>

\* a check that compares the latch with a value it never takes
LatchSetWrongValue(flag) == flag > 1

\* line 225
LatchSet(flag) == flag = 1

\* an aborted result that carries exit code 0
AbortedResultAsSuccess == [ExitCode |-> 0, Err |-> "aborted"]

\* line 226: the result of a task stopped by the latch
AbortedResult == [ExitCode |-> -1, Err |-> "aborted"]

\* lines 225-228
AbortCheck(t) ==
  /\ Alive /\ pc[t] = "AbortCheck"
  /\ IF LatchSet(exitOnFail)
     THEN /\ res' = [res EXCEPT ![t] = AbortedResult]
          /\ pc' = [pc EXCEPT ![t] = "Send"]
     ELSE /\ pc' = [pc EXCEPT ![t] = "Prepare"]
          /\ UNCHANGED res
  /\ UNCHANGED <<parseVars, argVars, mainVars, aggVars, chanVars,
                 spawned, left, rdDone, written, procLines, sent, pendingAtFail,
                 cancelled, semCap, sem, wg, exitOnFail>>

\* outcomes of shlex.Split, cmd.StdoutPipe and cmd.StderrPipe for a command:
\* a command without a word can only fail to tokenize or tokenize to nothing
PrepareOutcomes(cmd) ==
  IF Fields(cmd) = <<>> THEN {"split error", "empty command"}
  ELSE {"split error", "empty command", "pipe error", "ok"}

\* error paths that pass through the latch store before their send
AfterPrepareViaLatch(outcome) == IF outcome = "ok" THEN "Launch" ELSE "Latch"

\* the empty-command path returning without a send
AfterPrepareDropsResult(outcome) ==
  IF outcome = "ok" THEN "Launch"
  ELSE IF outcome = "empty command" THEN "Release" ELSE "Send"

\* position after lines 230-251 for an outcome
AfterPrepare(outcome) == IF outcome = "ok" THEN "Launch" ELSE "Send"

\* lines 230-251: tokenize the command, set up the two pipes
Prepare(t) ==
  /\ Alive /\ pc[t] = "Prepare"
  /\ \E outcome \in PrepareOutcomes(tasks[t].Command) :
       /\ pc' = [pc EXCEPT ![t] = AfterPrepare(outcome)]
       /\ res' = [res EXCEPT ![t] = IF outcome = "ok" THEN @
                                    ELSE [ExitCode |-> -1, Err |-> outcome]]
  /\ UNCHANGED <<parseVars, argVars, mainVars, aggVars, chanVars,
                 spawned, left, rdDone, written, procLines, sent, pendingAtFail,
                 cancelled, semCap, sem, wg, exitOnFail>>

\* a runner that never announces its command
AnnouncesNever(quiet) == FALSE

\* line 253: the "Running:" line is written unless quiet
Announces(quiet) == ~quiet

\* a start that does not look at ctx
StartIgnoresCtx(ctxDone) == TRUE

\* line 257: cmd.Start returns ctx.Err() when ctx is already done
StartCanSucceed(ctxDone) == ~ctxDone

\* lines 253-260: announce, cmd.Start (which fails on a cancelled ctx)
Launch(t) ==
  /\ Alive /\ pc[t] = "Launch"
  /\ written' = [written EXCEPT ![t] = IF Announces(Quiet) THEN @ + 1 ELSE @]
  /\ \/ /\ StartCanSucceed(cancelled)
        /\ \E o \in 0..MaxOut, e \in 0..MaxOut :
             /\ left' = [left EXCEPT ![t] = [stdout |-> o, stderr |-> e]]
             /\ procLines' = [procLines EXCEPT ![t] = o + e]
        /\ spawned' = [spawned EXCEPT ![t] = TRUE]
        /\ pc' = [pc EXCEPT ![t] = "Draining"]
        /\ UNCHANGED res
     \/ /\ res' = [res EXCEPT ![t] = [ExitCode |-> -1, Err |-> "start error"]]
        /\ pc' = [pc EXCEPT ![t] = "Send"]
        /\ UNCHANGED <<left, spawned, procLines>>
  /\ UNCHANGED <<parseVars, argVars, mainVars, aggVars, chanVars,
                 rdDone, sent, pendingAtFail, cancelled, semCap, sem, wg, exitOnFail>>

\* lines 288-289 of copyOutput: one line scanned and written
ReadLine(t, s) ==
  /\ Alive /\ pc[t] = "Draining"
  /\ s \notin rdDone[t]
  /\ left[t][s] > 0
  /\ left' = [left EXCEPT ![t][s] = @ - 1]
  /\ written' = [written EXCEPT ![t] = @ + 1]
  /\ UNCHANGED <<parseVars, argVars, mainVars, aggVars, chanVars,
                 pc, res, spawned, rdDone, procLines, sent, pendingAtFail,
                 cancelled, semCap, sem, wg, exitOnFail>>

\* lines 286-288 of copyOutput: end of stream, wg.Done
ReadEOF(t, s) ==
  /\ Alive /\ pc[t] = "Draining"
  /\ s \notin rdDone[t]
  /\ left[t][s] = 0
  /\ rdDone' = [rdDone EXCEPT ![t] = @ \cup {s}]
  /\ UNCHANGED <<parseVars, argVars, mainVars, aggVars, chanVars,
                 pc, res, spawned, left, written, procLines, sent, pendingAtFail,
                 cancelled, semCap, sem, wg, exitOnFail>>

\* a wait that returns as soon as one of the two readers is done
DrainedOneReader(done) == done # {}

\* line 266: wgOut.Wait() returns when both readers are done
Drained(done) == done = Streams

\* lines 262-266
OutputDrained(t) ==
  /\ Alive /\ pc[t] = "Draining"
  /\ Drained(rdDone[t])
  /\ pc' = [pc EXCEPT ![t] = "Wait"]
  /\ UNCHANGED <<parseVars, argVars, mainVars, aggVars, chanVars,
                 res, spawned, left, rdDone, written, procLines, sent, pendingAtFail,
                 cancelled, semCap, sem, wg, exitOnFail>>

\* lines 268-276: cmd.Wait and the exit code
Wait(t) ==
  /\ Alive /\ pc[t] = "Wait"
  /\ \E code \in ProcExitCodes(cancelled) :
       /\ res' = [res EXCEPT ![t] = [ExitCode |-> code,
                                     Err |-> IF code = 0 THEN "nil" ELSE "exit"]]
       /\ pendingAtFail' =
            IF AbortOnFail /\ code # 0
            THEN pendingAtFail \cup {u \in Tasks : pc[u] \in {"Pending", "SlotWait"}}
            ELSE pendingAtFail
  /\ pc' = [pc EXCEPT ![t] = "Latch"]
  /\ UNCHANGED <<parseVars, argVars, mainVars, aggVars, chanVars,
                 spawned, left, rdDone, written, procLines, sent,
                 cancelled, semCap, sem, wg, exitOnFail>>

\* a test that takes only the sentinel for a failure
SetsLatchOnlySentinel(abortOnFail, exitCode) == abortOnFail /\ exitCode < 0

\* line 278
SetsLatch(abortOnFail, exitCode) == abortOnFail /\ exitCode # 0

\* a store of the outcome of the test, which clears the latch on a success
LatchValueStoresTest(abortOnFail, exitCode, old) ==
  IF SetsLatch(abortOnFail, exitCode) THEN 1 ELSE 0

\* lines 278-280: the latch after this runner's conditional store
LatchValue(abortOnFail, exitCode, old) ==
  IF SetsLatch(abortOnFail, exitCode) THEN 1 ELSE old

\* lines 278-280
Latch(t) ==
  /\ Alive /\ pc[t] = "Latch"
  /\ exitOnFail' = LatchValue(AbortOnFail, res[t].ExitCode, exitOnFail)
  /\ pc' = [pc EXCEPT ![t] = "Send"]
  /\ UNCHANGED <<parseVars, argVars, mainVars, aggVars, chanVars,
                 res, spawned, left, rdDone, written, procLines, sent, pendingAtFail,
                 cancelled, semCap, sem, wg>>

\* a return path that does not run the deferred receive from sem
AfterSendNoRelease == "WgDone"

\* position after a send on results (the deferred calls follow)
AfterSend == "Release"

\* lines 226, 232, 236, 244, 249, 258, 282: results <- TaskResult{...}
Send(t) ==
  /\ Alive /\ pc[t] = "Send"
  /\ IF closed
     THEN /\ crash' = "send on closed channel"
          /\ exitStatus' = 2
          /\ UNCHANGED <<results, pc, sent>>
     ELSE /\ Len(results) < Len(tasks)
          /\ results' = Append(results, [Task |-> t, ExitCode |-> res[t].ExitCode,
                                         Err |-> res[t].Err])
          /\ sent' = [sent EXCEPT ![t] = @ + 1]
          /\ pc' = [pc EXCEPT ![t] = AfterSend]
          /\ UNCHANGED <<crash, exitStatus>>
  /\ UNCHANGED <<parseVars, argVars, mainPc, spawnIdx, aggVars, closed, closerPc,
                 res, spawned, left, rdDone, written, procLines, pendingAtFail,
                 cancelled, semCap, sem, wg, exitOnFail>>

\* line 223: defer func() { <-sem }()
Release(t) ==
  /\ Alive /\ pc[t] = "Release"
  /\ sem > 0
  /\ sem' = sem - 1
  /\ pc' = [pc EXCEPT ![t] = "WgDone"]
  /\ UNCHANGED <<parseVars, argVars, mainVars, aggVars, chanVars,
                 res, spawned, left, rdDone, written, procLines, sent, pendingAtFail,
                 cancelled, semCap, wg, exitOnFail>>

\* line 220: defer wg.Done()
WgDone(t) ==
  /\ Alive /\ pc[t] = "WgDone"
  /\ wg' = wg - 1
  /\ pc' = [pc EXCEPT ![t] = "Done"]
  /\ UNCHANGED <<parseVars, argVars, mainVars, aggVars, chanVars,
                 res, spawned, left, rdDone, written, procLines, sent, pendingAtFail,
                 cancelled, semCap, sem, exitOnFail>>

\* ------------------------------------------------------- specifications
\* the scheduler is started on n copies of the line "[a] x"
SchedLines(n) == [i \in 1..n |-> <<"[", "a", "]", " ", "x">>]

SchedInit(n) ==
  /\ mainPc = "parseArgs" /\ crash = "none" /\ exitStatus = -1 /\ spawnIdx = 1
  /\ cancelled = FALSE /\ semCap = 0 /\ sem = 0 /\ wg = 0 /\ exitOnFail = 0
  /\ results = <<>> /\ closed = FALSE /\ closerPc = "none"
  /\ successCount = 0 /\ failCount = 0 /\ failLabels = <<>>
  /\ pc = [t \in 1..n |-> "Pending"]
  /\ res = [t \in 1..n |-> NoResult]
  /\ spawned = [t \in 1..n |-> FALSE]
  /\ left = [t \in 1..n |-> [stdout |-> 0, stderr |-> 0]]
  /\ rdDone = [t \in 1..n |-> {}]
  /\ written = [t \in 1..n |-> 0]
  /\ procLines = [t \in 1..n |-> 0]
  /\ sent = [t \in 1..n |-> 0]
  /\ pendingAtFail = {}

\* the state after parseArgs has parsed the flags and called parseTasks
Init ==
  /\ \E n \in 0..MaxTasks :
       /\ lines = SchedLines(n)
       /\ tasks = parseTasks(lines).tasks
       /\ labelCount = parseTasks(lines).labelCount
       /\ pIdx = n + 1
       /\ parsePc = "returned"
       /\ SchedInit(Len(tasks))
  /\ Max \in -1..MaxMax
  /\ AbortOnFail \in BOOLEAN
  /\ Quiet \in BOOLEAN

Progress ==
  \/ ParseArgsCheck \/ MainSetup \/ MainSpawn \/ MainGoCloser \/ CloserClose
  \/ AggRecv \/ AggEnd \/ MainExit
  \/ \E t \in Tasks : Acquire(t)
  \/ \E t \in Tasks : AbortCheck(t)
  \/ \E t \in Tasks : Prepare(t)
  \/ \E t \in Tasks : Launch(t)
  \/ \E t \in Tasks, s \in Streams : ReadLine(t, s)
  \/ \E t \in Tasks, s \in Streams : ReadEOF(t, s)
  \/ \E t \in Tasks : OutputDrained(t)
  \/ \E t \in Tasks : Wait(t)
  \/ \E t \in Tasks : Latch(t)
  \/ \E t \in Tasks : Send(t)
  \/ \E t \in Tasks : Release(t)
  \/ \E t \in Tasks : WgDone(t)

Next == Progress \/ Signal

Spec == Init /\ [][Next]_vars

\* goroutines are scheduled fairly and every spawned process exits
FairSpec == Spec /\ WF_vars(Progress)

\* parseTasks on its own: called on any bounded list of input lines
ParseInit ==
  /\ lines \in LineLists
  /\ pIdx = 1 /\ tasks = <<>> /\ labelCount = <<>> /\ parsePc = "loop"
  /\ Max = 0 /\ AbortOnFail = FALSE /\ Quiet = FALSE
  /\ SchedInit(0)

ParseNext == ParseSkipBlank \/ ParsePanic \/ ParseAppend \/ ParseReturn

ParseSpec == ParseInit /\ [][ParseNext]_vars

\* ================================================================ claims
Holding == {"AbortCheck", "Prepare", "Launch", "Draining", "Wait", "Latch", "Send", "Release"}
Emitted(t) == sent[t] >= 1
Terminated == mainPc = "exited" \/ crash # "none"
AllDone == \A t \in Tasks : pc[t] = "Done"

\* C1: every runTask sends exactly one TaskResult, on every path: never more
\* than one, exactly one once it has returned, and once the channel is closed
\* the number of results emitted equals the task count.
C1_ExactlyOneResult ==
  /\ \A t \in Tasks : sent[t] <= 1
  /\ \A t \in Tasks : pc[t] \in {"Release", "WgDone", "Done"} => sent[t] = 1
  /\ closed => Cardinality({t \in Tasks : sent[t] = 1}) = Len(tasks)

C1_Witness ==
  /\ closed
  /\ \E t, u \in Tasks :
       /\ pc[t] = "Done" /\ res[t].Err = "aborted"
       /\ pc[u] = "Done" /\ res[u].Err = "exit"

\* C2: the number of tasks holding a slot (hence of tasks with a live
\* process) is at most max when max > 0 and at most the task count when max = 0.
C2_SlotBound ==
  LET bound == IF Max > 0 THEN Max ELSE Len(tasks)
  IN /\ Cardinality({t \in Tasks : pc[t] \in Holding}) <= bound
     /\ sem <= bound

C2_Witness ==
  /\ Max = 1
  /\ \E t, u \in Tasks : pc[t] = "Draining" /\ pc[u] = "SlotWait"

\* C3 as claimed: with abort-on-fail, a task that was Pending or in SlotWait
\* when a process exited nonzero never prepares or spawns a command, and its
\* result is the aborted one.
C3_Original ==
  \A t \in pendingAtFail :
    /\ ~spawned[t]
    /\ pc[t] \notin {"Prepare", "Launch", "Draining", "Wait", "Latch"}
    /\ pc[t] \in {"Send", "Release", "WgDone", "Done"} => res[t].Err = "aborted"

\* C3 amended: once the abort latch is set, a task that performs its abort
\* check is aborted, and every task then Pending or in SlotWait eventually is
\* Done(aborted) without having spawned a process.
C3_Amended ==
  /\ [][\A t \in Tasks :
          (exitOnFail = 1 /\ pc[t] = "AbortCheck" /\ pc'[t] # "AbortCheck")
            => (pc'[t] = "Send" /\ res'[t].Err = "aborted")]_vars
  /\ \A t \in 1..MaxTasks :
       (t \in Tasks /\ exitOnFail = 1 /\ pc[t] \in {"Pending", "SlotWait"})
         ~> (t \in Tasks /\ pc[t] = "Done" /\ res[t].Err = "aborted" /\ ~spawned[t])

C3_Witness ==
  /\ exitOnFail = 1
  /\ \E t \in pendingAtFail : pc[t] = "Done" /\ res[t].Err = "aborted" /\ ~spawned[t]

\* C4: when the range over results ends on a nonempty task list,
\* successCount + failCount is the task count, successCount being the number
\* of results with exit code 0.
C4_TallyIsTaskCount ==
  (mainPc \in {"summary", "exited"} /\ Len(tasks) > 0) =>
    /\ successCount + failCount = Len(tasks)
    /\ successCount = Cardinality({t \in Tasks : res[t].ExitCode = 0})
    /\ failCount = Cardinality({t \in Tasks : res[t].ExitCode # 0})

C4_Witness ==
  /\ mainPc = "summary"
  /\ successCount = 1 /\ failCount = 1
  /\ \E t \in Tasks : res[t].ExitCode = 3

\* C5 as claimed: the exit status is 1 iff some TaskResult has a nonzero exit
\* code, and 0 iff every task has a result with exit code 0.
C5_Original ==
  Terminated =>
    /\ exitStatus = 1 <=> \E t \in Tasks : Emitted(t) /\ res[t].ExitCode # 0
    /\ exitStatus = 0 <=> \A t \in Tasks : Emitted(t) /\ res[t].ExitCode = 0

\* C5 amended: with at least one task the exit status is 1 iff some
\* TaskResult has a nonzero exit code and 0 iff every task has a result with
\* exit code 0; with no task the exit status is 1.
C5_Amended ==
  Terminated =>
    IF Len(tasks) = 0 THEN exitStatus = 1
    ELSE /\ exitStatus = 1 <=> \E t \in Tasks : Emitted(t) /\ res[t].ExitCode # 0
         /\ exitStatus = 0 <=> \A t \in Tasks : Emitted(t) /\ res[t].ExitCode = 0

C5_Witness ==
  /\ mainPc = "exited" /\ exitStatus = 1
  /\ \E t, u \in Tasks : res[t].ExitCode = -1 /\ res[u].ExitCode = 0

\* C6: with abort-on-fail, when a failing TaskResult of any kind has been
\* emitted the abort latch is set.
C6_AnyFailureSetsLatch ==
  AbortOnFail =>
    \A t \in Tasks : (Emitted(t) /\ res[t].ExitCode # 0) => exitOnFail = 1

\* C7: for max >= 1, once the runners are being started, eventually every
\* runner is Done with its slot released, the results channel is closed and
\* main has left the range loop and exited.
C7_ForwardProgress ==
  (mainPc = "spawn" /\ Max >= 1)
    ~> (AllDone /\ sem = 0 /\ closed /\ mainPc = "exited")

C7_Witness ==
  /\ Max = 1 /\ Len(tasks) >= 2
  /\ AllDone /\ sem = 0 /\ closed /\ mainPc = "exited"
  /\ \E t \in Tasks : res[t].Err = "start error"

\* C8: no runner sends on a closed channel, the channel is closed only when
\* every runner has finished, and the range loop ends only after a result of
\* every task has been received.
C8_CloseAfterRunners ==
  /\ crash # "send on closed channel"
  /\ closed => (AllDone /\ wg = 0)
  /\ mainPc = "summary" =>
       (results = <<>> /\ successCount + Len(failLabels) = Len(tasks))

C8_Witness ==
  /\ closed /\ mainPc = "range" /\ Len(results) = Len(tasks) /\ Len(tasks) >= 2

\* the non-blank trimmed lines, one per task appended so far
NonBlankLines == SelectSeq(lines, LAMBDA l : TrimSpace(l) # <<>>)
BaseLabelAt(i) == OrigLabel(TrimSpace(NonBlankLines[i]))
Occurrence(i) == Cardinality({j \in 1..i : BaseLabelAt(j) = BaseLabelAt(i)})

\* C9: the first task of a base label has the bare label, the n-th (n >= 2)
\* has "<base> (n)", for explicit and inferred base labels alike, and the
\* color key is that of the final label.
C9_OccurrenceSuffix ==
  \A i \in 1..Len(tasks) :
    LET n == Occurrence(i) IN
    /\ tasks[i].Label = IF n = 1 THEN BaseLabelAt(i)
                        ELSE BaseLabelAt(i) \o <<" ", "(", Digit[n + 1], ")">>
    /\ tasks[i].Color = getColor(tasks[i].Label)

C9_Witness ==
  /\ parsePc = "returned" /\ Len(tasks) = 3
  /\ lines[1] = <<"a", " ", "x">> /\ lines[2] = <<"[", "a", "]", " ", "x">>
  /\ tasks[1].Label = <<"a">>
  /\ tasks[2].Label = <<"a", " ", "(", "2", ")">>
  /\ tasks[3].Label = <<"a", " ", "(", "3", ")">>
  /\ tasks[3].Color # getColor(<<"a">>)

\* C10: the display labels of the tasks parseTasks returns are pairwise distinct.
C10_LabelsDistinct ==
  \A i, j \in 1..Len(tasks) : i # j => tasks[i].Label # tasks[j].Label

AllSucceeded == \A t \in Tasks : Emitted(t) /\ res[t].ExitCode = 0
LoopEnded == mainPc \in {"summary", "exited"} /\ Len(tasks) > 0

FailLabelSet == {failLabels[i] : i \in 1..Len(failLabels)}
IsAborted(t) == res[t].Err = "aborted"

AbortedShape ==
  \A t \in Tasks : IsAborted(t) =>
    /\ res[t].ExitCode = -1
    /\ ~spawned[t] /\ procLines[t] = 0 /\ written[t] = 0
    /\ pc[t] \in {"Send", "Release", "WgDone", "Done"}
    /\ LoopEnded => (tasks[t].Label \in FailLabelSet /\ failCount >= 1)

\* C12: a runner that performs its abort check with the latch set goes
\* straight to the send of (-1, "aborted") without tokenizing or spawning,
\* then gives its slot back, and the aggregator counts it as a failure.
C12_AbortedBeforeStart ==
  [][/\ \A t \in Tasks :
          (pc[t] = "AbortCheck" /\ exitOnFail = 1 /\ pc'[t] # pc[t])
            => (pc'[t] = "Send" /\ res'[t].Err = "aborted")
     /\ \A t \in Tasks :
          (IsAborted(t) /\ pc[t] = "Release" /\ pc'[t] # pc[t])
            => (sem' = sem - 1 /\ pc'[t] = "WgDone")
     /\ AbortedShape']_vars

C12_Witness ==
  /\ Max = 1 /\ mainPc = "summary" /\ sem = 0 /\ failCount = 2
  /\ \E t \in Tasks : IsAborted(t) /\ pc[t] = "Done"

LocalFailure(t) ==
  res[t].Err \in {"split error", "empty command", "pipe error", "start error"}
ProcessFailed(u) == spawned[u] /\ res[u].Err = "exit" /\ res[u].ExitCode # 0

LocalFailureShape ==
  /\ \A t \in Tasks : LocalFailure(t) => (res[t].ExitCode = -1 /\ ~spawned[t])
  /\ exitOnFail = 1 => \E u \in Tasks : ProcessFailed(u)
  /\ \A t \in Tasks : IsAborted(t) => \E u \in Tasks : ProcessFailed(u)

C14_LatchOneWay ==
  /\ exitOnFail = 0
  /\ [][exitOnFail' \in {0, 1} /\ exitOnFail' >= exitOnFail]_vars

C14_Witness ==
  /\ exitOnFail = 1
  /\ \E t \in Tasks : pc[t] = "Latch" /\ res[t].ExitCode = 0

PastCheck == {"Prepare", "Launch", "Draining", "Wait", "Latch"}

\* C15: the step that sets the latch changes no other task, no process and
\* not the cancellation; with the latch set and no cancellation a task past
\* its check is never aborted, can still start its process, keeps draining,
\* gets the exit code of its own process and sends a result carrying it.
C15_LatchLeavesRunning ==
  [][/\ (exitOnFail = 0 /\ exitOnFail' = 1) =>
          /\ cancelled' = cancelled /\ spawned' = spawned /\ res' = res
          /\ left' = left /\ rdDone' = rdDone /\ sem' = sem
          /\ \A u \in Tasks :
               pc'[u] # pc[u] => (pc[u] = "Latch" /\ pc'[u] = "Send")
     /\ \A t \in Tasks : (exitOnFail = 1 /\ pc[t] \in PastCheck) =>
          /\ res'[t].Err # "aborted"
          /\ pc[t] = "Launch" /\ ~cancelled /\ Alive =>
               ENABLED (Launch(t) /\ spawned'[t])
          /\ pc[t] = "Draining" => pc'[t] \in {"Draining", "Wait"}
          /\ (pc[t] = "Wait" /\ pc'[t] = "Latch" /\ ~cancelled) =>
               res'[t].ExitCode \in {0, 3}
     /\ \A t \in Tasks : (spawned[t] /\ pc[t] = "Send" /\ pc'[t] = "Release") =>
          /\ results'[Len(results')].Task = t
          /\ results'[Len(results')].ExitCode = res[t].ExitCode]_vars

C15_Witness ==
  /\ exitOnFail = 1 /\ ~cancelled
  /\ \E t, u \in Tasks :
       /\ pc[t] = "Wait" /\ procLines[t] = 2
       /\ pc[u] = "Done" /\ res[u].ExitCode = 3

DrainedShape(t) ==
  /\ rdDone[t] = Streams
  /\ left[t].stdout = 0 /\ left[t].stderr = 0
  /\ written[t] = procLines[t] + (IF Announces(Quiet) THEN 1 ELSE 0)

C17_CancelledNeverSpawns ==
  /\ [][\A t \in Tasks :
          /\ pc[t] = "Pending" => pc'[t] \in {"Pending", "SlotWait"}
          /\ pc[t] = "SlotWait" => pc'[t] \in {"SlotWait", "AbortCheck"}
          /\ (cancelled /\ pc[t] = "Launch" /\ pc'[t] # pc[t]) =>
               (pc'[t] = "Send" /\ res'[t].ExitCode = -1 /\ ~spawned'[t])]_vars
  /\ \A t \in 1..MaxTasks :
       (t \in Tasks /\ cancelled /\ ~spawned[t])
         ~> (/\ t \in Tasks
             /\ pc[t] = "Done" /\ ~spawned[t]
             /\ res[t].ExitCode = -1 /\ sent[t] = 1)

C17_Witness ==
  /\ cancelled /\ Max = 1
  /\ \E t, u \in Tasks :
       /\ pc[u] = "Done" /\ spawned[u] /\ res[u].ExitCode = -1
       /\ pc[t] = "Send" /\ res[t].Err = "start error" /\ ~spawned[t]

\* C18: for every max the slot pool is created without a runtime error before
\* any runner starts, with capacity max when max > 0 and the task count
\* when max is 0 or negative.
C18_PoolCreated ==
  /\ crash = "none"
  /\ mainPc \notin {"parseArgs", "setup"} =>
       semCap = (IF Max > 0 THEN Max ELSE Len(tasks))

AfterLatch == {"Send", "Release", "WgDone", "Done"}
FailedPastLatch(u) ==
  spawned[u] /\ res[u].ExitCode # 0 /\ pc[u] \in AfterLatch

\* C19: with abort-on-fail a runner whose process exited nonzero has set the
\* latch when it is at its send or later, so no abort check passes once such
\* a runner has sent or released; with max = 1 no process is started after a
\* nonzero process exit.
C19_LatchBeforeRelease ==
  [][AbortOnFail =>
       /\ (\A u \in Tasks : FailedPastLatch(u) => exitOnFail = 1)'
       /\ \A t \in Tasks :
            (pc[t] = "AbortCheck" /\ pc'[t] = "Prepare") =>
              ~ \E u \in Tasks : FailedPastLatch(u)
       /\ (Max = 1 /\ \E u \in Tasks : res[u].Err = "exit") =>
            spawned' = spawned]_vars

C19_Witness ==
  /\ Max = 1 /\ AbortOnFail /\ sem = 0
  /\ \E t, u \in Tasks :
       /\ pc[t] = "Done" /\ spawned[t] /\ res[t].ExitCode = 3
       /\ pc[u] = "Done" /\ IsAborted(u)

\* C20: parseTasks never ends in a runtime error, and when it has returned
\* there is one task per non-blank line, in order, whose command is the text
\* after the first "]" trimmed, or the whole line without an explicit label.
C20_ParseCompletes ==
  /\ parsePc # "panic"
  /\ parsePc = "returned" =>
       /\ Len(tasks) = Len(NonBlankLines)
       /\ \A i \in 1..Len(tasks) :
            tasks[i].Command = SplitLabel(TrimSpace(NonBlankLines[i])).cmd

====
